---- MODULE Spec2Model ----
(***************************************************************************)
(* A model of app.py, the reference implementation of an integer-based     *)
(* somewhat-homomorphic encryption scheme: the centered modulo (q_p,       *)
(* mod_p), encrypt_bit, decrypt, homomorphic_xor, homomorphic_and, the     *)
(* noise-budget tester test_operations and the batch driver run_task2.     *)
(*                                                                         *)
(* A Python call either returns a value or raises.  Both outcomes are one  *)
(* record, [exc, val]: exc = NoExc and val the returned integer, or exc    *)
(* the name of the exception raised (val is then 0 and means nothing).     *)
(* A caller that holds no try/except passes a raised record on unchanged,  *)
(* which is how app.py propagates every exception: it has no try block.    *)
(***************************************************************************)
EXTENDS Integers, Sequences, FiniteSets, TLC

VARIABLES
    \* ---- the arguments of the call under way (test_operations' names)
    ciphertext, sk, x0, max_iterations,
    \* ---- test_operations' frame
    pc,                 \* where control is
    original_message,   \* app.py:169
    current_ct_xor, num_xor, it_xor, xor_state,   \* app.py:172-178
    current_ct_and, num_and, it_and, and_state,   \* app.py:181-187
    \* ---- a call of one of the pure functions: its name, arguments, outcome
    call, args, ret,
    \* ---- encrypt_bit's frame
    m, pk, rho, tau, S, r,
    \* ---- run_task2's frame
    doc,                \* the JSON document read from json_file_path
    task_pc, params, idx, reports

vars == <<ciphertext, sk, x0, max_iterations, pc, original_message,
          current_ct_xor, num_xor, it_xor, xor_state,
          current_ct_and, num_and, it_and, and_state,
          call, args, ret, m, pk, rho, tau, S, r,
          doc, task_pc, params, idx, reports>>

testVars == <<pc, original_message, current_ct_xor, num_xor, it_xor, xor_state,
              current_ct_and, num_and, it_and, and_state>>
inputVars == <<ciphertext, sk, x0, max_iterations>>
callVars == <<call, args, ret>>
encVars == <<m, pk, rho, tau, S, r>>
taskVars == <<doc, task_pc, params, idx, reports>>

----------------------------------------------------------------------------
(* Bounds of the model. *)
MaxCt == 4          \* |ciphertext| <= MaxCt
MaxSk == 9          \* |sk| <= MaxSk
MaxX0 == 12         \* |x0| <= MaxX0
MaxIter == 3        \* max_iterations <= MaxIter
MaxTau == 2         \* tau <= MaxTau, len(pk) <= MaxTau + 1
MaxRho == 1         \* rho <= MaxRho
MaxKey == 3         \* encrypt_bit: |pk[i]| <= MaxKey, |sk| <= MaxKey
MaxBatchKey == 2    \* run_task2: |pk[i]| <= MaxBatchKey, |sk| <= MaxBatchKey
MaxBatchCt == 1     \* run_task2: |Ciphertext| <= MaxBatchCt
MaxEntries == 2     \* run_task2: entries of the Ciphertext Collection
MaxNoiseBits == 1   \* run_task2: the Noise Bitlength of an entry
(* run_task2 passes max_iterations = 200000 (app.py:217); the model runs   *)
(* it with this cap in its place.                                          *)
RunCap == 2

----------------------------------------------------------------------------
(* Outcomes of a call. *)
NoExc == "none"
Return(v) == [exc |-> NoExc, val |-> v]
Raise(e) == [exc |-> e, val |-> 0]
Raised(x) == x.exc # NoExc

Abs(n) == IF n < 0 THEN -n ELSE n

(* int / int followed by round(): Python's true division gives the double  *)
(* nearest to the exact quotient, and round() of a double is the nearest   *)
(* integer, a tie going to the even one.  The double is exact enough that  *)
(* round() of it is the round-half-even of the exact quotient whenever     *)
(* |z| < 2^52: a quotient that is no tie is at least 1/(2|p|) away from    *)
(* one, and the double is within |z/p| * 2^-53 of the quotient.  Every     *)
(* integer of this model is below 2^31, so the operator below is what      *)
(* round(z / p) returns there; beyond 2^53 the double loses the low bits   *)
(* and the code's quotient is no longer the nearest integer, and a         *)
(* quotient beyond the largest double raises OverflowError; neither is     *)
(* within the integers enumerated here.                                   *)
RoundHalfEven(z, p) ==
    LET n == IF p < 0 THEN -z ELSE z
        d == Abs(p)
        f == n \div d
        rem == n % d
    IN  IF 2 * rem < d THEN f
        ELSE IF 2 * rem > d THEN f + 1
        ELSE IF f % 2 = 0 THEN f ELSE f + 1

(* q_p with the division by zero guarded away: it returns 0 for p = 0. *)
q_p_zero_guarded(z, p) ==
    IF p = 0 THEN Return(0) ELSE Return(RoundHalfEven(z, p))

(* app.py:54-58.  z / 0 raises ZeroDivisionError, an ArithmeticError. *)
q_p(z, p) ==
    IF p = 0 THEN Raise("ZeroDivisionError") ELSE Return(RoundHalfEven(z, p))

(* app.py:60-64 *)
mod_p(z, p) ==
    LET q == q_p(z, p)
    IN  IF Raised(q) THEN q ELSE Return(z - q.val * p)

(* app.py:111-125 *)
decrypt(sk_, c) ==
    LET c_mod_sk == mod_p(c, sk_)
    IN  IF Raised(c_mod_sk) THEN c_mod_sk ELSE mod_p(c_mod_sk.val, 2)

(* app.py:127-139 *)
homomorphic_xor(c1, c2, x0_) == mod_p(c1 + c2, x0_)

(* app.py:141-153 *)
homomorphic_and(c1, c2, x0_) == mod_p(c1 * c2, x0_)

----------------------------------------------------------------------------
(* Values of the frames that are not in use. *)
NoTest ==
    /\ pc = "idle" /\ original_message = 0
    /\ current_ct_xor = 0 /\ num_xor = 0 /\ it_xor = 0 /\ xor_state = "Running"
    /\ current_ct_and = 0 /\ num_and = 0 /\ it_and = 0 /\ and_state = "Running"
NoCall == call = "none" /\ args = <<>> /\ ret = Return(0)
NoEnc == m = 0 /\ pk = <<>> /\ rho = 0 /\ tau = 0 /\ S = {} /\ r = 0
NoTask ==
    /\ doc = <<>> /\ task_pc = "none" /\ params = <<>> /\ idx = 0
    /\ reports = <<>>

----------------------------------------------------------------------------
(* test_operations, app.py:155-189, one action per statement executed. *)

(* app.py:169-173: decrypt the starting ciphertext, set up the XOR chain. *)
TestStart ==
    /\ pc = "start"
    /\ LET d == decrypt(sk, ciphertext)
       IN  IF Raised(d)
           THEN /\ pc' = "raised"
                /\ ret' = d
                /\ UNCHANGED <<original_message, current_ct_xor>>
           ELSE /\ pc' = "xor"
                /\ original_message' = d.val
                /\ current_ct_xor' = ciphertext
                /\ ret' = ret
    /\ UNCHANGED <<num_xor, it_xor, xor_state, current_ct_and, num_and, it_and,
                   and_state, call, args>>
    /\ UNCHANGED <<inputVars, encVars, taskVars>>

(* XorIter counting the step before it is checked: num_xor += 1 moved     *)
(* above the `if ... break`.                                               *)
XorIter_count_before_check ==
    /\ pc = "xor"
    /\ it_xor < max_iterations
    /\ LET c == homomorphic_xor(current_ct_xor, ciphertext, x0)
           d == decrypt(sk, c.val)
       IN  IF Raised(c) \/ Raised(d)
           THEN /\ pc' = "raised"
                /\ ret' = IF Raised(c) THEN c ELSE d
                /\ UNCHANGED <<current_ct_xor, num_xor, it_xor, xor_state,
                               current_ct_and>>
           ELSE /\ current_ct_xor' = c.val
                /\ ret' = ret
                /\ num_xor' = num_xor + 1
                /\ IF d.val # original_message
                   THEN /\ pc' = "and"
                        /\ xor_state' = "Diverged"
                        /\ current_ct_and' = ciphertext
                        /\ UNCHANGED it_xor
                   ELSE /\ it_xor' = it_xor + 1
                        /\ UNCHANGED <<pc, xor_state, current_ct_and>>
    /\ UNCHANGED <<original_message, num_and, it_and, and_state, call, args>>
    /\ UNCHANGED <<inputVars, encVars, taskVars>>

(* app.py:174-178: one iteration of `for _ in range(max_iterations)`. *)
XorIter ==
    /\ pc = "xor"
    /\ it_xor < max_iterations
    /\ LET c == homomorphic_xor(current_ct_xor, ciphertext, x0)
           d == decrypt(sk, c.val)
       IN  IF Raised(c) \/ Raised(d)
           THEN /\ pc' = "raised"
                /\ ret' = IF Raised(c) THEN c ELSE d
                /\ UNCHANGED <<current_ct_xor, num_xor, it_xor, xor_state,
                               current_ct_and>>
           ELSE /\ current_ct_xor' = c.val
                /\ ret' = ret
                /\ IF d.val # original_message
                   THEN \* break
                        /\ pc' = "and"
                        /\ xor_state' = "Diverged"
                        /\ current_ct_and' = ciphertext
                        /\ UNCHANGED <<num_xor, it_xor>>
                   ELSE /\ num_xor' = num_xor + 1
                        /\ it_xor' = it_xor + 1
                        /\ UNCHANGED <<pc, xor_state, current_ct_and>>
    /\ UNCHANGED <<original_message, num_and, it_and, and_state, call, args>>
    /\ UNCHANGED <<inputVars, encVars, taskVars>>

(* app.py:174, 181-182: range(max_iterations) is used up, the loop ends. *)
XorExhaust ==
    /\ pc = "xor"
    /\ it_xor = max_iterations
    /\ pc' = "and"
    /\ xor_state' = "ExhaustedBudget"
    /\ current_ct_and' = ciphertext
    /\ UNCHANGED <<original_message, current_ct_xor, num_xor, it_xor,
                   num_and, it_and, and_state, callVars>>
    /\ UNCHANGED <<inputVars, encVars, taskVars>>

(* AndIter without the break: a step that decrypts differently is        *)
(* skipped, not counted, and the loop goes on to the cap.                  *)
AndIter_no_break ==
    /\ pc = "and"
    /\ it_and < max_iterations
    /\ LET c == homomorphic_and(current_ct_and, ciphertext, x0)
           d == decrypt(sk, c.val)
       IN  IF Raised(c) \/ Raised(d)
           THEN /\ pc' = "raised"
                /\ ret' = IF Raised(c) THEN c ELSE d
                /\ UNCHANGED <<current_ct_and, num_and, it_and, and_state>>
           ELSE /\ current_ct_and' = c.val
                /\ ret' = ret
                /\ it_and' = it_and + 1
                /\ num_and' = IF d.val # original_message
                              THEN num_and ELSE num_and + 1
                /\ UNCHANGED <<pc, and_state>>
    /\ UNCHANGED <<original_message, current_ct_xor, num_xor, it_xor, xor_state,
                   call, args>>
    /\ UNCHANGED <<inputVars, encVars, taskVars>>

(* app.py:183-187 *)
AndIter ==
    /\ pc = "and"
    /\ it_and < max_iterations
    /\ LET c == homomorphic_and(current_ct_and, ciphertext, x0)
           d == decrypt(sk, c.val)
       IN  IF Raised(c) \/ Raised(d)
           THEN /\ pc' = "raised"
                /\ ret' = IF Raised(c) THEN c ELSE d
                /\ UNCHANGED <<current_ct_and, num_and, it_and, and_state>>
           ELSE /\ current_ct_and' = c.val
                /\ ret' = ret
                /\ IF d.val # original_message
                   THEN \* break
                        /\ pc' = "done"
                        /\ and_state' = "Diverged"
                        /\ UNCHANGED <<num_and, it_and>>
                   ELSE /\ num_and' = num_and + 1
                        /\ it_and' = it_and + 1
                        /\ UNCHANGED <<pc, and_state>>
    /\ UNCHANGED <<original_message, current_ct_xor, num_xor, it_xor, xor_state,
                   call, args>>
    /\ UNCHANGED <<inputVars, encVars, taskVars>>

(* app.py:183, 189: the loop ends, test_operations returns. *)
AndExhaust ==
    /\ pc = "and"
    /\ it_and = max_iterations
    /\ pc' = "done"
    /\ and_state' = "ExhaustedBudget"
    /\ UNCHANGED <<original_message, current_ct_xor, num_xor, it_xor, xor_state,
                   current_ct_and, num_and, it_and, callVars>>
    /\ UNCHANGED <<inputVars, encVars, taskVars>>

test_operations == TestStart \/ XorIter \/ XorExhaust \/ AndIter \/ AndExhaust

----------------------------------------------------------------------------
(* The arithmetic core called on its own: each pure function applied to    *)
(* arguments drawn from the bounded sets, its outcome kept in ret.         *)
Cts == -MaxCt .. MaxCt
Sks == -MaxSk .. MaxSk
X0s == -MaxX0 .. MaxX0

CallModP ==
    /\ pc = "start" /\ call = "none"
    /\ \E p \in {sk, x0} :
          /\ call' = "mod_p"
          /\ args' = <<ciphertext, p>>
          /\ ret' = mod_p(ciphertext, p)
    /\ pc' = "called"
    /\ UNCHANGED <<original_message, current_ct_xor, num_xor, it_xor, xor_state,
                   current_ct_and, num_and, it_and, and_state>>
    /\ UNCHANGED <<inputVars, encVars, taskVars>>

CallDecrypt ==
    /\ pc = "start" /\ call = "none"
    /\ call' = "decrypt"
    /\ args' = <<sk, ciphertext>>
    /\ ret' = decrypt(sk, ciphertext)
    /\ pc' = "called"
    /\ UNCHANGED <<original_message, current_ct_xor, num_xor, it_xor, xor_state,
                   current_ct_and, num_and, it_and, and_state>>
    /\ UNCHANGED <<inputVars, encVars, taskVars>>

CallXor ==
    /\ pc = "start" /\ call = "none"
    /\ \E c2 \in Cts :
          /\ call' = "homomorphic_xor"
          /\ args' = <<ciphertext, c2, x0>>
          /\ ret' = homomorphic_xor(ciphertext, c2, x0)
    /\ pc' = "called"
    /\ UNCHANGED <<original_message, current_ct_xor, num_xor, it_xor, xor_state,
                   current_ct_and, num_and, it_and, and_state>>
    /\ UNCHANGED <<inputVars, encVars, taskVars>>

CallAnd ==
    /\ pc = "start" /\ call = "none"
    /\ \E c2 \in Cts :
          /\ call' = "homomorphic_and"
          /\ args' = <<ciphertext, c2, x0>>
          /\ ret' = homomorphic_and(ciphertext, c2, x0)
    /\ pc' = "called"
    /\ UNCHANGED <<original_message, current_ct_xor, num_xor, it_xor, xor_state,
                   current_ct_and, num_and, it_and, and_state>>
    /\ UNCHANGED <<inputVars, encVars, taskVars>>

----------------------------------------------------------------------------
(* Spec: the arithmetic core and test_operations on arbitrary arguments. *)
Init ==
    /\ ciphertext \in Cts
    /\ sk \in Sks
    /\ x0 \in X0s
    /\ max_iterations \in 0 .. MaxIter
    /\ pc = "start" /\ original_message = 0
    /\ current_ct_xor = 0 /\ num_xor = 0 /\ it_xor = 0 /\ xor_state = "Running"
    /\ current_ct_and = 0 /\ num_and = 0 /\ it_and = 0 /\ and_state = "Running"
    /\ NoCall /\ NoEnc /\ NoTask

Next ==
    \/ TestStart
    \/ XorIter
    \/ XorExhaust
    \/ AndIter
    \/ AndExhaust
    \/ CallModP
    \/ CallDecrypt
    \/ CallXor
    \/ CallAnd

Spec == Init /\ [][Next]_vars

----------------------------------------------------------------------------
(* encrypt_bit, app.py:66-93. *)

RECURSIVE Pow2(_)
Pow2(n) == IF n = 0 THEN 1 ELSE 2 * Pow2(n - 1)

(* app.py:89: sum(x_values[i - 1] for i in S), x_values[i - 1] = pk[i];    *)
(* Python's pk[i] is pk_[i + 1] of the 1-based sequence.                   *)
RECURSIVE sum_x_S(_, _)
sum_x_S(pk_, T) ==
    IF T = {} THEN 0
    ELSE LET i == CHOOSE i \in T : TRUE
         IN  pk_[i + 1] + sum_x_S(pk_, T \ {i})

(* The subsets random.sample(range(1, tau + 1), random.randint(1, tau))    *)
(* can return: a size in 1 .. tau, then that many distinct indices.        *)
Samples(tau_) == {T \in SUBSET (1 .. tau_) : Cardinality(T) \in 1 .. tau_}

(* The whole of encrypt_bit as one step.  The statements raise in the      *)
(* order of the code: pk[0] and pk[i] (IndexError), random.randint(1, tau) *)
(* with tau < 1 (ValueError), random.randint with the float bounds that    *)
(* 2**(2*rho) gives for rho < 0 (ValueError or TypeError, by the Python    *)
(* version), mod_p with x0 = 0 (ZeroDivisionError).                        *)
EncryptBit ==
    /\ pc = "enc_start"
    /\ IF Len(pk) = 0 \/ Len(pk) < tau + 1
       THEN /\ ret' = Raise("IndexError")
            /\ pc' = "raised"
            /\ UNCHANGED <<S, r, ciphertext, x0>>
       ELSE IF tau < 1
       THEN /\ ret' = Raise("ValueError")
            /\ pc' = "raised"
            /\ x0' = pk[1]
            /\ UNCHANGED <<S, r, ciphertext>>
       ELSE \E T \in Samples(tau) :
              /\ S' = T
              /\ x0' = pk[1]
              /\ IF rho < 0
                 THEN /\ \E e \in {"ValueError", "TypeError"} : ret' = Raise(e)
                      /\ pc' = "raised"
                      /\ UNCHANGED <<r, ciphertext>>
                 ELSE \E rr \in -Pow2(2 * rho) .. Pow2(2 * rho) :
                        /\ r' = rr
                        /\ LET c == mod_p(m + 2 * rr + 2 * sum_x_S(pk, T), pk[1])
                           IN  IF Raised(c)
                               THEN /\ ret' = c
                                    /\ pc' = "raised"
                                    /\ UNCHANGED ciphertext
                               ELSE /\ ciphertext' = c.val
                                    /\ pc' = "encrypted"
                                    /\ ret' = ret
    /\ UNCHANGED <<original_message, current_ct_xor, num_xor, it_xor, xor_state,
                   current_ct_and, num_and, it_and, and_state, call, args>>
    /\ UNCHANGED <<sk, max_iterations, m, pk, rho, tau, taskVars>>

(* app.py:111-125: the ciphertext of encrypt_bit handed to decrypt. *)
DecryptEncrypted ==
    /\ pc = "encrypted"
    /\ call' = "decrypt"
    /\ args' = <<sk, ciphertext>>
    /\ ret' = decrypt(sk, ciphertext)
    /\ pc' = "decrypted"
    /\ UNCHANGED <<original_message, current_ct_xor, num_xor, it_xor, xor_state,
                   current_ct_and, num_and, it_and, and_state>>
    /\ UNCHANGED <<inputVars, encVars, taskVars>>

PkSeqs(K) == UNION {[1 .. n -> -K .. K] : n \in 0 .. MaxTau + 1}

(* SpecEnc: encrypt_bit on a plaintext bit and arbitrary key material,     *)
(* then decrypt.                                                           *)
InitEnc ==
    /\ m \in {0, 1}
    /\ pk \in PkSeqs(MaxKey)
    /\ rho \in -1 .. MaxRho
    /\ tau \in 0 .. MaxTau
    /\ sk \in -MaxKey .. MaxKey
    /\ S = {} /\ r = 0
    /\ ciphertext = 0 /\ x0 = 0 /\ max_iterations = 0
    /\ pc = "enc_start" /\ original_message = 0
    /\ current_ct_xor = 0 /\ num_xor = 0 /\ it_xor = 0 /\ xor_state = "Running"
    /\ current_ct_and = 0 /\ num_and = 0 /\ it_and = 0 /\ and_state = "Running"
    /\ NoCall /\ NoTask

NextEnc ==
    \/ EncryptBit
    \/ DecryptEncrypted

SpecEnc == InitEnc /\ [][NextEnc]_vars

----------------------------------------------------------------------------
(* run_task2, app.py:194-222, with the loaders it calls.                   *)
(*                                                                         *)
(* doc is the JSON document of json_file_path: the fields run_task2 reads  *)
(* (rho and tau are parsed and passed on untouched; eta and gamma are      *)
(* parsed and never read again).  A JSON value that int() is applied to is *)
(* a record [int_like, val]: int() returns val of an int-like value and    *)
(* raises ValueError for any other.                                        *)

int(v) == IF v.int_like THEN Return(v.val) ELSE Raise("ValueError")

(* app.py:5-34: parse_swhe_params returns what it read; it checks nothing. *)
parse_swhe_params(d) == [rho |-> d.rho, tau |-> d.tau, pk |-> d.pk, sk |-> d.sk]

(* app.py:45-52 *)
parse_ciphertext_collection(d) == d.collection

(* app.py:202-205 *)
TaskParseParams ==
    /\ task_pc = "start"
    /\ params' = parse_swhe_params(doc)
    /\ task_pc' = "parsed"
    /\ UNCHANGED <<doc, idx, reports, testVars, inputVars, callVars, encVars>>

(* app.py:207-210: the collection is read, x0 = int(pk[0]). *)
TaskReadX0 ==
    /\ task_pc = "parsed"
    /\ IF Len(params.pk) = 0
       THEN /\ ret' = Raise("IndexError")
            /\ task_pc' = "failed"
            /\ UNCHANGED <<x0, sk>>
       ELSE /\ x0' = params.pk[1]
            /\ sk' = params.sk
            /\ task_pc' = "loop"
            /\ ret' = ret
    /\ UNCHANGED <<doc, params, idx, reports, testVars, ciphertext,
                   max_iterations, call, args, encVars>>

(* app.py:213-217: the next entry; int(ct["Ciphertext"]) and the call of   *)
(* test_operations(ciphertext, sk, x0, 200000).                            *)
TaskEntry ==
    /\ task_pc = "loop"
    /\ idx < Len(parse_ciphertext_collection(doc))
    /\ LET ct == parse_ciphertext_collection(doc)[idx + 1]
           c == int(ct.Ciphertext)
       IN  IF Raised(c)
           THEN /\ ret' = c
                /\ task_pc' = "failed"
                /\ UNCHANGED <<ciphertext, max_iterations, testVars>>
           ELSE /\ ciphertext' = c.val
                /\ max_iterations' = RunCap
                /\ task_pc' = "testing"
                /\ ret' = ret
                /\ pc' = "start" /\ original_message' = 0
                /\ current_ct_xor' = 0 /\ num_xor' = 0 /\ it_xor' = 0
                /\ xor_state' = "Running"
                /\ current_ct_and' = 0 /\ num_and' = 0 /\ it_and' = 0
                /\ and_state' = "Running"
    /\ UNCHANGED <<doc, params, idx, reports, sk, x0, call, args, encVars>>

(* app.py:217-221: test_operations returned; the three lines are printed. *)
TaskReport ==
    /\ task_pc = "testing"
    /\ pc = "done"
    /\ reports' = Append(reports,
            [index |-> idx + 1,
             noise_bitlength |->
                 parse_ciphertext_collection(doc)[idx + 1].NoiseBitlength,
             num_xor |-> num_xor,
             num_and |-> num_and])
    /\ idx' = idx + 1
    /\ task_pc' = "loop"
    /\ pc' = "idle"
    /\ UNCHANGED <<doc, params, original_message, current_ct_xor, num_xor,
                   it_xor, xor_state, current_ct_and, num_and, it_and,
                   and_state, inputVars, callVars, encVars>>

(* app.py:217: test_operations raised; run_task2 has no try, the exception *)
(* leaves the loop and run_task2.                                          *)
TaskTestRaised ==
    /\ task_pc = "testing"
    /\ pc = "raised"
    /\ task_pc' = "failed"
    /\ pc' = "idle"
    /\ UNCHANGED <<doc, params, idx, reports, original_message, current_ct_xor,
                   num_xor, it_xor, xor_state, current_ct_and, num_and, it_and,
                   and_state, inputVars, callVars, encVars>>

(* app.py:213, 222: the collection is used up, run_task2 returns. *)
TaskReturn ==
    /\ task_pc = "loop"
    /\ idx = Len(parse_ciphertext_collection(doc))
    /\ task_pc' = "returned"
    /\ UNCHANGED <<doc, params, idx, reports, testVars, inputVars, callVars,
                   encVars>>

JsonInts(K) == {[int_like |-> TRUE, val |-> v] : v \in -K .. K}
                 \cup {[int_like |-> FALSE, val |-> 0]}
Entries == [Ciphertext : JsonInts(MaxBatchCt), NoiseBitlength : 1 .. MaxNoiseBits]
Collections == UNION {[1 .. n -> Entries] : n \in 0 .. MaxEntries}

(* SpecBatch: run_task2 on an arbitrary document. *)
InitBatch ==
    /\ doc \in [rho : -1 .. MaxRho, tau : 0 .. MaxTau,
                pk : UNION {[1 .. n -> -MaxBatchKey .. MaxBatchKey] :
                                n \in 0 .. MaxTau},
                sk : -MaxBatchKey .. MaxBatchKey,
                collection : Collections]
    /\ task_pc = "start" /\ params = <<>> /\ idx = 0 /\ reports = <<>>
    /\ ciphertext = 0 /\ sk = 0 /\ x0 = 0 /\ max_iterations = 0
    /\ NoTest /\ NoCall /\ NoEnc

NextBatch ==
    \/ TaskParseParams
    \/ TaskReadX0
    \/ TaskEntry
    \/ TestStart
    \/ XorIter
    \/ XorExhaust
    \/ AndIter
    \/ AndExhaust
    \/ TaskReport
    \/ TaskTestRaised
    \/ TaskReturn

SpecBatch == InitBatch /\ [][NextBatch]_vars

----------------------------------------------------------------------------
(* What the claims speak of. *)

(* The representative of c modulo p > 0 in (-p/2, p/2], as mathematics     *)
(* defines the centered modulo; the noise of a ciphertext c under the key  *)
(* sk is CenteredResidue(c, sk).                                           *)
CenteredResidue(c, p) ==
    LET t == c % p IN IF 2 * t > p THEN t - p ELSE t

(* The value of the XOR chain (the AND chain) after i steps, as the        *)
(* specification defines it: step 0 is the ciphertext, step i combines     *)
(* step i-1 with the ciphertext.                                           *)
RECURSIVE XorChain(_)
XorChain(i) ==
    IF i = 0 THEN ciphertext
    ELSE homomorphic_xor(XorChain(i - 1), ciphertext, x0).val

RECURSIVE AndChain(_)
AndChain(i) ==
    IF i = 0 THEN ciphertext
    ELSE homomorphic_and(AndChain(i - 1), ciphertext, x0).val

referenceBit == decrypt(sk, ciphertext).val
XorGood(i) == decrypt(sk, XorChain(i)).val = referenceBit
AndGood(i) == decrypt(sk, AndChain(i)).val = referenceBit

(* The steps a chain has executed: the counted ones and the diverging one. *)
XorSteps == it_xor + (IF xor_state = "Diverged" THEN 1 ELSE 0)

IsArithmeticError(x) ==
    x.exc \in {"ZeroDivisionError", "OverflowError", "FloatingPointError"}

----------------------------------------------------------------------------
(* C1: for every integer z and nonzero p, mod_p(z, p) returns r with       *)
(* r = z (mod p) and -p/2 < r <= p/2.  For p < 0 the interval as written   *)
(* is empty; it is read there with |p|, the reading no result can fail     *)
(* for the sign of p alone.                                                *)
C1_CenteredModRange ==
    (call = "mod_p" /\ args[2] # 0) =>
        /\ ~Raised(ret)
        /\ (ret.val - args[1]) % Abs(args[2]) = 0
        /\ -Abs(args[2]) < 2 * ret.val
        /\ 2 * ret.val <= Abs(args[2])

(* C2: for every nonzero sk and every c, decrypt(sk, c) returns 0 or 1. *)
C2_DecryptReturnsBit ==
    (call = "decrypt" /\ args[1] # 0) => (~Raised(ret) /\ ret.val \in {0, 1})

(* C3: test_operations returns for each chain the number of consecutive    *)
(* steps, from step 1 on, whose decrypted chain value equals the reference *)
(* bit: every counted step agrees, the step after the last counted one     *)
(* disagrees unless the cap was reached, and the counter is in             *)
(* 0 .. max_iterations.                                                    *)
C3_CountersCountAgreeingSteps ==
    (pc = "done" /\ sk # 0 /\ x0 # 0) =>
        /\ num_xor \in 0 .. max_iterations
        /\ \A j \in 1 .. num_xor : XorGood(j)
        /\ num_xor < max_iterations => ~XorGood(num_xor + 1)
        /\ num_and \in 0 .. max_iterations
        /\ \A j \in 1 .. num_and : AndGood(j)
        /\ num_and < max_iterations => ~AndGood(num_and + 1)

(* C3's case: a chain that agreed for some steps and then diverged, beside *)
(* one that reached the cap.                                               *)
C3_Witness ==
    /\ pc = "done" /\ sk # 0 /\ x0 # 0
    /\ 0 < num_xor /\ num_xor < max_iterations
    /\ num_and = max_iterations

(* C8, as amended: a zero modulus makes mod_p raise an ArithmeticError, so *)
(* does decrypt with sk = 0, and nothing in the core catches it: it is the *)
(* outcome of homomorphic_xor and homomorphic_and with x0 = 0, and of      *)
(* test_operations with sk = 0 (at its first statement) and with x0 = 0    *)
(* and max_iterations >= 1 (at the first step of the XOR chain).           *)
C8_ZeroModulusRaises ==
    /\ (call = "mod_p" /\ args[2] = 0) =>
            (ret = Raise("ZeroDivisionError") /\ IsArithmeticError(ret))
    /\ (call = "decrypt" /\ args[1] = 0) =>
            (ret = Raise("ZeroDivisionError") /\ IsArithmeticError(ret))
    /\ (call \in {"homomorphic_xor", "homomorphic_and"} /\ args[3] = 0) =>
            (ret = Raise("ZeroDivisionError") /\ IsArithmeticError(ret))
    /\ (call = "none" /\ sk = 0 /\ pc # "start") =>
            (pc = "raised" /\ ret = Raise("ZeroDivisionError"))
    /\ (call = "none" /\ x0 = 0 /\ max_iterations >= 1) =>
            pc \in {"start", "xor", "raised"}
    /\ (call = "none" /\ x0 = 0 /\ max_iterations >= 1 /\ pc = "xor") =>
            (it_xor = 0 /\ xor_state = "Running")
    /\ pc = "raised" => IsArithmeticError(ret)

(* C8, as claimed: the same, with test_operations raising whenever x0 = 0  *)
(* or sk = 0, so that it never returns counters for a zero x0 or sk.       *)
C8_ZeroModulusAlwaysRaises ==
    /\ (call = "mod_p" /\ args[2] = 0) =>
            (ret = Raise("ZeroDivisionError") /\ IsArithmeticError(ret))
    /\ (call = "decrypt" /\ args[1] = 0) =>
            (ret = Raise("ZeroDivisionError") /\ IsArithmeticError(ret))
    /\ (call \in {"homomorphic_xor", "homomorphic_and"} /\ args[3] = 0) =>
            (ret = Raise("ZeroDivisionError") /\ IsArithmeticError(ret))
    /\ (call = "none" /\ (sk = 0 \/ x0 = 0)) => pc # "done"

(* C8's case: test_operations ended by the error of a zero x0. *)
C8_Witness ==
    /\ pc = "raised" /\ x0 = 0 /\ sk # 0
    /\ ret = Raise("ZeroDivisionError")

(* C9: a returned counter equals max_iterations exactly when its chain     *)
(* ended by using up the budget (every one of the max_iterations steps     *)
(* decrypted to the reference bit), and is below it exactly when the chain *)
(* ended by diverging.                                                     *)
C9_CapDistinguishesOutcome ==
    pc = "done" =>
        /\ xor_state \in {"Diverged", "ExhaustedBudget"}
        /\ and_state \in {"Diverged", "ExhaustedBudget"}
        /\ (num_xor = max_iterations) <=> (xor_state = "ExhaustedBudget")
        /\ (num_xor < max_iterations) <=> (xor_state = "Diverged")
        /\ (num_and = max_iterations) <=> (and_state = "ExhaustedBudget")
        /\ (num_and < max_iterations) <=> (and_state = "Diverged")
        /\ (xor_state = "ExhaustedBudget") <=>
                (\A j \in 1 .. max_iterations : XorGood(j))
        /\ (and_state = "ExhaustedBudget") <=>
                (\A j \in 1 .. max_iterations : AndGood(j))

(* C9's case: one chain diverged at its last allowed step, the other used  *)
(* up the budget.                                                          *)
C9_Witness ==
    /\ pc = "done" /\ max_iterations >= 2
    /\ and_state = "Diverged" /\ num_and = max_iterations - 1
    /\ xor_state = "ExhaustedBudget"

(* C5: when the noise of Enc(a), Enc(b) and of their reduced sum (product) *)
(* is below sk/2, the XOR (AND) of the ciphertexts decrypts to a XOR b     *)
(* (a AND b).                                                              *)
C5_Homomorphism ==
    (call \in {"homomorphic_xor", "homomorphic_and"} /\ ~Raised(ret) /\ sk > 0) =>
        LET e1 == CenteredResidue(args[1], sk)
            e2 == CenteredResidue(args[2], sk)
            a == e1 % 2
            b == e2 % 2
            e == IF call = "homomorphic_xor" THEN e1 + e2 ELSE e1 * e2
            bit == IF call = "homomorphic_xor" THEN (a + b) % 2 ELSE a * b
        IN  ( /\ 2 * Abs(e1) < sk
              /\ 2 * Abs(e2) < sk
              /\ 2 * Abs(e) < sk
              /\ CenteredResidue(ret.val, sk) = e )
            => decrypt(sk, ret.val) = Return(bit)

(* C10: at every step i >= 1 of the XOR chain the value computed step by   *)
(* step equals the one-shot mod_p(ciphertext * (i + 1), x0).               *)
C10_XorChainIsOneShot ==
    (pc \in {"xor", "and", "done"} /\ x0 # 0 /\ XorSteps >= 1) =>
        current_ct_xor = mod_p(ciphertext * (XorSteps + 1), x0).val

(* C4: a ciphertext of encrypt_bit (m a bit, S a nonempty subset of        *)
(* 1..tau, r in [-2^(2 rho), 2^(2 rho)]) whose noise e under sk has        *)
(* e = m (mod 2) and |e| < sk/2 decrypts to m.                             *)
C4_RoundTrip ==
    (pc = "decrypted" /\ sk > 0) =>
        LET e == CenteredResidue(ciphertext, sk)
        IN  ( /\ m \in {0, 1}
              /\ S # {} /\ S \subseteq 1 .. tau
              /\ r \in -Pow2(2 * rho) .. Pow2(2 * rho)
              /\ ciphertext = mod_p(m + 2 * r + 2 * sum_x_S(pk, S), x0).val
              /\ e % 2 = m
              /\ 2 * Abs(e) < sk )
            => ret = Return(m)

(* The key material of a document that the construction contract rejects. *)
InvalidKeyMaterial(d) ==
    \/ Len(d.pk) < d.tau + 1
    \/ d.tau < 1
    \/ d.rho < 0
    \/ (Len(d.pk) > 0 /\ d.pk[1] = 0)

(* C6: key material with len(pk) < tau + 1, tau < 1, rho < 0 or x0 = 0 is  *)
(* rejected before any arithmetic runs: no noise test (with its            *)
(* decryptions and homomorphic evaluations) is ever started on it, and the *)
(* run never ends as a success.                                            *)
C6_InvalidKeyMaterialRejected ==
    InvalidKeyMaterial(doc) =>
        /\ task_pc \notin {"testing", "returned"}
        /\ pc = "idle"
        /\ reports = <<>>

(* Entry i of the collection is one whose processing raises. *)
EntryRaises(i) ==
    \/ ~doc.collection[i].Ciphertext.int_like
    \/ doc.sk = 0
    \/ (doc.pk[1] = 0 /\ RunCap >= 1)

(* C7: a failure on one entry never aborts the batch: when run_task2 has   *)
(* ended, every entry whose processing does not raise has its report, in   *)
(* input order.  (The reports of the code hold no error mark; the claim's  *)
(* marking of the failing entry is beyond what they can state.)            *)
C7_FailureIsolatedToEntry ==
    (task_pc \in {"returned", "failed"} /\ Len(doc.pk) > 0) =>
        \A i \in 1 .. Len(doc.collection) :
            ~EntryRaises(i) => \E j \in 1 .. Len(reports) : reports[j].index = i

====
